---- MODULE Spec2Model ----
(***************************************************************************)
(* A model of Organizer.py: classification of a file name into             *)
(* (category, extension folder), conflict-safe destination resolution,     *)
(* and the traversal/relocation loop of organize_directory.                *)
(*                                                                         *)
(* Strings the program takes apart (file names, extensions) are sequences  *)
(* of one-character strings, so that suffix extraction, lower-casing,      *)
(* startswith('.') and the "stem (i)suffix" formatting are computed, not   *)
(* assumed.  A path is the sequence of its parts (pathlib's Path.parts),   *)
(* the first part being the anchor "/".                                    *)
(***************************************************************************)
EXTENDS Naturals, Sequences, FiniteSets

(***************************************************************************)
(* Bounds of the model.                                                    *)
(***************************************************************************)
MaxFiles == 3
MaxRuns == 2

(***************************************************************************)
(* Characters and strings.                                                 *)
(***************************************************************************)
UpperChars == <<"A","B","C","D","E","F","G","H","I","J","K","L","M",
                "N","O","P","Q","R","S","T","U","V","W","X","Y","Z">>
LowerChars == <<"a","b","c","d","e","f","g","h","i","j","k","l","m",
                "n","o","p","q","r","s","t","u","v","w","x","y","z">>

\* str.lower() on one character
LowerChar(ch) ==
    IF \E k \in 1..Len(UpperChars) : UpperChars[k] = ch
    THEN LowerChars[CHOOSE k \in 1..Len(UpperChars) : UpperChars[k] = ch]
    ELSE ch

\* str.lower()
Lower(s) == [k \in 1..Len(s) |-> LowerChar(s[k])]

\* str.lstrip(".")
RECURSIVE LStripDot(_)
LStripDot(s) ==
    IF s # <<>> /\ Head(s) = "." THEN LStripDot(Tail(s)) ELSE s

\* str.startswith('.')
StartsWithDot(s) == s # <<>> /\ Head(s) = "."

DigitChars == <<"0","1","2","3","4","5","6","7","8","9">>

\* str(i) for a natural number i, as the f-string formats it
RECURSIVE IntToStr(_)
IntToStr(n) ==
    IF n < 10 THEN <<DigitChars[n + 1]>>
    ELSE IntToStr(n \div 10) \o <<DigitChars[(n % 10) + 1]>>

(***************************************************************************)
(* pathlib: name, parent, suffix, stem.                                    *)
(***************************************************************************)
\* Path.name
Name(path) == path[Len(path)]

\* Path.parent
Parent(path) == SubSeq(path, 1, Len(path) - 1)

\* position of the last "." of a name (0 when there is none)
LastDot(nm) ==
    IF \E k \in 1..Len(nm) : nm[k] = "."
    THEN CHOOSE k \in 1..Len(nm) :
            nm[k] = "." /\ \A j \in (k + 1)..Len(nm) : nm[j] # "."
    ELSE 0

\* pathlib: a name has a suffix when its last dot is neither its first
\* nor its last character
HasSuffix(nm) == 1 < LastDot(nm) /\ LastDot(nm) < Len(nm)

\* Path.suffix of a name (with the dot), "" when there is none
Suffix(nm) == IF HasSuffix(nm) THEN SubSeq(nm, LastDot(nm), Len(nm)) ELSE <<>>

\* Path.stem of a name
Stem(nm) == IF HasSuffix(nm) THEN SubSeq(nm, 1, LastDot(nm) - 1) ELSE nm

(***************************************************************************)
(* Category labels and the extension table.                                *)
(***************************************************************************)
Images == <<"I","m","a","g","e","s">>
Videos == <<"V","i","d","e","o","s">>
Audio == <<"A","u","d","i","o">>
Documents == <<"D","o","c","u","m","e","n","t","s">>
Archives == <<"A","r","c","h","i","v","e","s">>
Code == <<"C","o","d","e">>
Others == <<"O","t","h","e","r","s">>
no_ext == <<"n","o","_","e","x","t">>
unknown == <<"u","n","k","n","o","w","n">>

\* dict.get's None
None == <<>>

ImageExts ==
    { <<"j","p","g">>, <<"j","p","e","g">>, <<"p","n","g">>, <<"g","i","f">>,
      <<"b","m","p">>, <<"w","e","b","p">>, <<"t","i","f">>, <<"t","i","f","f">>,
      <<"s","v","g">>, <<"i","c","o">> }
VideoExts ==
    { <<"m","p","4">>, <<"m","k","v">>, <<"m","o","v">>, <<"a","v","i">>,
      <<"w","m","v">>, <<"f","l","v">>, <<"w","e","b","m">> }
AudioExts ==
    { <<"m","p","3">>, <<"w","a","v">>, <<"f","l","a","c">>, <<"a","a","c">>,
      <<"o","g","g">>, <<"m","4","a">> }
DocumentExts ==
    { <<"p","d","f">>, <<"d","o","c">>, <<"d","o","c","x">>, <<"x","l","s">>,
      <<"x","l","s","x">>, <<"p","p","t">>, <<"p","p","t","x">>, <<"t","x","t">>,
      <<"m","d">>, <<"r","t","f">>, <<"o","d","t">> }
ArchiveExts ==
    { <<"z","i","p">>, <<"t","a","r">>, <<"g","z">>, <<"b","z","2">>,
      <<"7","z">>, <<"r","a","r">> }
CodeExts ==
    { <<"p","y">>, <<"j","s">>, <<"t","s">>, <<"j","a","v","a">>, <<"c">>,
      <<"c","p","p">>, <<"c","s">>, <<"g","o">>, <<"r","b">>, <<"r","s">>,
      <<"p","h","p">>, <<"h","t","m","l">>, <<"c","s","s">>, <<"j","s","o","n">>,
      <<"x","m","l">>, <<"s","h">>, <<"p","s","1">> }

\* the keys of EXTENSION_CATEGORIES
TableKeys ==
    ImageExts \cup VideoExts \cup AudioExts \cup DocumentExts
        \cup ArchiveExts \cup CodeExts

\* the dict EXTENSION_CATEGORIES
ExtensionTable ==
    [ e \in TableKeys |->
        IF e \in ImageExts THEN Images
        ELSE IF e \in VideoExts THEN Videos
        ELSE IF e \in AudioExts THEN Audio
        ELSE IF e \in DocumentExts THEN Documents
        ELSE IF e \in ArchiveExts THEN Archives
        ELSE Code ]

\* EXTENSION_CATEGORIES.get(ext)
EXTENSION_CATEGORIES(ext) ==
    IF ext \in DOMAIN ExtensionTable THEN ExtensionTable[ext] ELSE None

\* the labels of the already-organized check (line 157)
CategoryNames ==
    { Documents, Images, Videos, Audio, Archives, Code, Others }

(***************************************************************************)
(* Content-type inference.  mimetypes.guess_type is a library oracle: the  *)
(* model fixes, per behaviour, the type it guesses for each name (mimeOf). *)
(* A type is <<major, minor>>; NoMime is the None it returns when it       *)
(* cannot tell.                                                            *)
(***************************************************************************)
NoMime == <<>>

MimeTypes ==
    { NoMime, <<"image", "x-raw">>, <<"video", "x-raw">>, <<"audio", "x-raw">>,
      <<"application", "zip">>, <<"application", "x-tar">>,
      <<"application", "pdf">>, <<"text", "plain">>, <<"text", "html">>,
      <<"application", "msword">>, <<"application", "json">>, <<"text", "css">> }

VARIABLES
    target,         \* organize_directory's target (a path)
    recursive,      \* its parameters
    dry_run,
    overwrite,
    skip_hidden,
    mimeOf,         \* the content-type oracle: name -> guessed type
    fs,             \* the filesystem: path -> "dir" or a file's identity
    pc,             \* where the run is
    stack,          \* rglob: per directory being walked, its subdirectories left
    sp,             \* rglob/iterdir: the directory whose entries are being yielded
    todo,           \* the entries of sp listed and not yet yielded
    p,              \* the loop variable of organize_directory
    category,       \* get_category's result
    ext_folder,
    want,           \* the destination handed to move_file
    dest,           \* safe_destination's result
    i,              \* safe_destination's counter
    log,            \* the (source, destination) decisions of this run, in order
    skippedHidden,  \* paths this run skipped as hidden
    skippedOrganized, \* paths this run skipped as already in a category folder
    clobbered,      \* paths a move landed on while they were occupied
    moved,          \* identities of the files this run moved, in order
    moveErrors,     \* number of moves of this run that raised and were caught
    startFs,        \* the filesystem when this run started
    runNo,          \* number of the run (1, 2, ...)
    prevLog,        \* the previous run's log, dry_run flag and outcome
    prevDry,
    prevClean

vars ==
    << target, recursive, dry_run, overwrite, skip_hidden, mimeOf, fs, pc,
       stack, sp, todo, p, category, ext_folder, want, dest, i, log,
       skippedHidden, skippedOrganized, clobbered, moved, moveErrors,
       startFs, runNo, prevLog, prevDry, prevClean >>

params == << target, recursive, overwrite, skip_hidden, mimeOf >>
iter == << stack, sp, todo >>
locals == << p, category, ext_folder, want, dest, i >>
history == << skippedHidden, skippedOrganized, clobbered, moved, moveErrors >>
runs == << startFs, runNo, prevLog, prevDry, prevClean >>

\* mimetypes.guess_type(str(path))[0]
GuessType(path) ==
    IF Name(path) \in DOMAIN mimeOf THEN mimeOf[Name(path)] ELSE NoMime

guess_category_by_mime(path) ==
    LET mime == GuessType(path) IN
    IF mime # NoMime
    THEN IF mime[1] = "image" THEN Images
         ELSE IF mime[1] = "video" THEN Videos
         ELSE IF mime[1] = "audio" THEN Audio
         ELSE IF mime \in { <<"application", "zip">>, <<"application", "x-tar">> }
              THEN Archives
         ELSE IF mime \in { <<"application", "pdf">>, <<"text", "plain">>,
                            <<"text", "html">>, <<"application", "msword">> }
              THEN Documents
         ELSE Others
    ELSE Others

\* lines 76-79: the extension get_category works with
ExtOf(path) ==
    IF Suffix(Name(path)) # <<>>
    THEN LStripDot(Lower(Suffix(Name(path))))
    ELSE <<>>

\* get_category with the precedence swapped: content type first
get_category_mime_first(path) ==
    LET ext == ExtOf(path)
        category_by_mime == guess_category_by_mime(path)
    IN  IF ext # <<>>
        THEN IF category_by_mime # Others
             THEN << category_by_mime, ext >>
             ELSE IF EXTENSION_CATEGORIES(ext) # None
                  THEN << EXTENSION_CATEGORIES(ext), ext >>
                  ELSE << Others, ext >>
        ELSE << category_by_mime, no_ext >>

\* get_category that names the folder of an uncategorised extension "unknown"
get_category_unknown(path) ==
    LET ext == ExtOf(path)
        category_by_mime == guess_category_by_mime(path)
    IN  IF ext # <<>>
        THEN IF EXTENSION_CATEGORIES(ext) # None
             THEN << EXTENSION_CATEGORIES(ext), ext >>
             ELSE IF category_by_mime # Others
                  THEN << category_by_mime, ext >>
                  ELSE << Others, unknown >>
        ELSE << category_by_mime, no_ext >>

\* get_category(path) = << category, extension_folder_name >>
get_category(path) ==
    LET ext == ExtOf(path)
        category_by_mime == guess_category_by_mime(path)
    IN  IF ext # <<>>
        THEN IF EXTENSION_CATEGORIES(ext) # None
             THEN << EXTENSION_CATEGORIES(ext), ext >>
             ELSE IF category_by_mime # Others
                  THEN << category_by_mime, IF ext # <<>> THEN ext ELSE unknown >>
                  ELSE << Others, IF ext # <<>> THEN ext ELSE unknown >>
        ELSE << category_by_mime, no_ext >>

(***************************************************************************)
(* The filesystem: a function from the paths that exist to "dir" or to the *)
(* identity of the regular file there.  No path has a regular file among   *)
(* its ancestors.                                                          *)
(***************************************************************************)
\* Path.exists()
Exists(f, path) == path \in DOMAIN f

\* Path.is_dir()
IsDir(f, path) == path \in DOMAIN f /\ f[path] = "dir"

\* os.scandir(d) / os.listdir(d): the entries of directory d
Children(f, d) == { q \in DOMAIN f : Len(q) = Len(d) + 1 /\ Parent(q) = d }

\* the entries of d that are directories
SubDirs(f, d) == { q \in Children(f, d) : f[q] = "dir" }

\* d and its ancestors
Prefixes(path) == { SubSeq(path, 1, k) : k \in 1..Len(path) }

\* Path.mkdir(parents=True, exist_ok=True) raises (and main does not catch
\* it): d or an ancestor of d is a regular file
RECURSIVE MkdirRaises(_, _)
MkdirRaises(f, d) ==
    IF Exists(f, d) THEN ~IsDir(f, d)
    ELSE IF d = <<>> THEN FALSE
    ELSE IF Exists(f, Parent(d)) THEN ~IsDir(f, Parent(d))
    ELSE MkdirRaises(f, Parent(d))

\* the filesystem after a mkdir that did not raise
Mkdir(f, d) ==
    [ q \in DOMAIN f \cup Prefixes(d) |-> IF q \in DOMAIN f THEN f[q] ELSE "dir" ]

\* shutil.move: where the source really lands (inside dst when dst is a
\* directory)
RealDst(f, src, dst) == IF IsDir(f, dst) THEN Append(dst, Name(src)) ELSE dst

\* shutil.move raises Error: dst is a directory that already holds the name
MoveRaises(f, src, dst) == IsDir(f, dst) /\ Exists(f, RealDst(f, src, dst))

\* the filesystem after os.rename(src, real_dst)
Rename(f, src, rd) ==
    [ q \in (DOMAIN f \ {src}) \cup {rd} |-> IF q = rd THEN f[src] ELSE f[q] ]

\* regular files of a filesystem
FilePaths(f) == { q \in DOMAIN f : f[q] # "dir" }

(***************************************************************************)
(* The trees a run starts from: at most MaxFiles of these files under the  *)
(* target, with the directories they need.                                 *)
(***************************************************************************)
Anchor == << "/" >>
n_r == << "r" >>
n_hidden_r == << ".", "r" >>
n_a_c == << "a", ".", "c" >>
n_a1_c == << "a", " ", "(", "1", ")", ".", "c" >>
n_h_c == << ".", "h", ".", "c" >>
n_n == << "n" >>
n_d == << "d" >>
n_c == << "c" >>

Targets == { << Anchor, n_r >>, << Anchor, n_hidden_r >> }

Pool ==
    { [ rel |-> << n_a_c >>,                    id |-> "f1" ],
      [ rel |-> << n_d, n_a_c >>,               id |-> "f2" ],
      [ rel |-> << Code, n_c, n_a_c >>,         id |-> "f3" ],
      [ rel |-> << Code, n_c, n_a1_c >>,        id |-> "f4" ],
      [ rel |-> << n_h_c >>,                    id |-> "f5" ],
      [ rel |-> << n_n >>,                      id |-> "f6" ],
      [ rel |-> << Code >>,                     id |-> "f7" ],
      [ rel |-> << Code, n_c, n_a_c, n_a_c >>,  id |-> "f8" ],
      [ rel |-> << Code, n_a_c >>,              id |-> "f9" ] }

IsProperPrefix(a, b) == Len(a) < Len(b) /\ SubSeq(b, 1, Len(a)) = a

Consistent(F) ==
    \A e \in F, g \in F : ~IsProperPrefix(e.rel, g.rel)

Trees ==
    { F \in SUBSET Pool : Cardinality(F) <= MaxFiles /\ Consistent(F) }

TreeFs(t, F) ==
    LET files == { t \o e.rel : e \in F }
        dirs == Prefixes(t) \cup
                UNION { Prefixes(Parent(q)) : q \in files }
    IN  [ q \in files \cup dirs |->
            IF q \in files
            THEN (CHOOSE e \in F : t \o e.rel = q).id
            ELSE "dir" ]

\* the oracle only matters for the names it is asked about
Oracles(F) ==
    IF \E e \in F : Name(e.rel) = n_n
    THEN { [ nm \in { n_n } |-> m ] : m \in { NoMime, << "text", "plain" >> } }
    ELSE { [ nm \in { n_n } |-> NoMime ] }

NoDir == <<>>

StartOfRun ==
    /\ pc = "start"
    /\ stack = <<>>
    /\ sp = NoDir
    /\ todo = {}
    /\ p = NoDir
    /\ category = None
    /\ ext_folder = None
    /\ want = NoDir
    /\ dest = NoDir
    /\ i = 1
    /\ log = <<>>
    /\ skippedHidden = {}
    /\ skippedOrganized = {}
    /\ clobbered = {}
    /\ moved = <<>>
    /\ moveErrors = 0
    /\ startFs = fs

Init ==
    /\ target \in Targets
    /\ recursive \in BOOLEAN
    /\ dry_run \in BOOLEAN
    /\ overwrite \in BOOLEAN
    /\ skip_hidden \in BOOLEAN
    /\ \/ \E F \in Trees :
            /\ fs = TreeFs(target, F)
            /\ mimeOf \in Oracles(F)
       \/ /\ fs \in { [ q \in { << Anchor >> } |-> "dir" ],
                      [ q \in { << Anchor >>, target } |->
                            IF q = target THEN "f0" ELSE "dir" ] }
          /\ mimeOf \in Oracles({})
    /\ runNo = 1
    /\ prevLog = <<>>
    /\ prevDry = FALSE
    /\ prevClean = FALSE
    /\ StartOfRun

(***************************************************************************)
(* organize_directory: the root check and the choice of iterator.          *)
(***************************************************************************)
\* line 128: the target is an existing directory
ValidTarget == Exists(fs, target) /\ IsDir(fs, target)

\* lines 128-129: raise ValueError
OrganizeInvalidTarget ==
    /\ pc = "start"
    /\ ~ValidTarget
    /\ pc' = "invalid"
    /\ UNCHANGED << params, dry_run, fs, iter, locals, log, history, runs >>

\* lines 131-135: rglob('*') or iterdir(), both lazy: nothing is listed yet
OrganizeStart ==
    /\ pc = "start"
    /\ ValidTarget
    /\ pc' = "iter"
    /\ stack' = << { target } >>
    /\ sp' = NoDir
    /\ todo' = {}
    /\ UNCHANGED << params, dry_run, fs, locals, log, history, runs >>

(***************************************************************************)
(* The iterator.  pathlib's rglob('*') walks depth first: it lists a       *)
(* directory and yields its entries (todo), and only when the loop has     *)
(* consumed them lists the directory again for its subdirectories          *)
(* (stack).  iterdir() lists the target once.  The order of a listing is   *)
(* the operating system's: any.  rglob's set of paths already yielded is   *)
(* left out: each directory is listed for its entries once, so no path is  *)
(* yielded twice.                                                          *)
(***************************************************************************)
RECURSIVE NormStack(_)
NormStack(s) ==
    IF s # <<>> /\ s[Len(s)] = {} THEN NormStack(SubSeq(s, 1, Len(s) - 1)) ELSE s

\* the next directory is entered and its entries are listed
IterEnter ==
    /\ pc = "iter"
    /\ todo = {}
    /\ sp = NoDir
    /\ stack # <<>>
    /\ \E d \in stack[Len(stack)] :
        /\ sp' = d
        /\ todo' = Children(fs, d)
        /\ stack' = [ stack EXCEPT ![Len(stack)] = @ \ { d } ]
    /\ UNCHANGED << params, dry_run, fs, pc, locals, log, history, runs >>

\* rglob: the entries of sp are consumed; sp is listed for its subdirectories
IterDescend ==
    /\ pc = "iter"
    /\ todo = {}
    /\ sp # NoDir
    /\ recursive
    /\ stack' = NormStack(Append(stack, SubDirs(fs, sp)))
    /\ sp' = NoDir
    /\ UNCHANGED << params, dry_run, fs, pc, todo, locals, log, history, runs >>

\* the iterator is exhausted: the for loop, and the run, end
IterDone ==
    /\ pc = "iter"
    /\ todo = {}
    /\ \/ sp = NoDir /\ stack = <<>>
       \/ sp # NoDir /\ ~recursive
    /\ pc' = "done"
    /\ UNCHANGED << params, dry_run, fs, iter, locals, log, history, runs >>

(***************************************************************************)
(* The body of the for loop, lines 137-167.                                *)
(***************************************************************************)
\* line 142: any(part.startswith('.') for part in p.parts)
HasHiddenPart(path) == \E k \in 1..Len(path) : StartsWithDot(path[k])

\* p.relative_to(target)
RelativeTo(path, t) == SubSeq(path, Len(t) + 1, Len(path))

\* lines 148-157 with the category-folder test dropped
AlreadyOrganized_never(path) == FALSE

\* lines 148-157 recognising only <target>/<Category>/<ext>/<file>
AlreadyOrganized_depth3(path) ==
    /\ Parent(path) # target
    /\ Len(RelativeTo(path, target)) >= 3
    /\ RelativeTo(path, target)[1] \in CategoryNames

\* lines 148-157: the file is inside a category folder under the target
AlreadyOrganized(path) ==
    /\ Parent(path) # target
    /\ Len(RelativeTo(path, target)) >= 2
    /\ RelativeTo(path, target)[1] \in CategoryNames

\* lines 139-140
VisitDir ==
    /\ pc = "iter"
    /\ \E q \in todo :
        /\ IsDir(fs, q)
        /\ todo' = todo \ { q }
        /\ p' = q
    /\ UNCHANGED << params, dry_run, fs, pc, stack, sp, category, ext_folder,
                    want, dest, i, log, history, runs >>

\* line 142
SkipsAsHidden(path) == skip_hidden /\ HasHiddenPart(path)

\* lines 142-145
VisitHidden ==
    /\ pc = "iter"
    /\ \E q \in todo :
        /\ ~IsDir(fs, q)
        /\ SkipsAsHidden(q)
        /\ todo' = todo \ { q }
        /\ p' = q
        /\ skippedHidden' = skippedHidden \cup { q }
    /\ UNCHANGED << params, dry_run, fs, pc, stack, sp, category, ext_folder,
                    want, dest, i, log, skippedOrganized, clobbered, moved,
                    moveErrors, runs >>

\* lines 148-161
VisitOrganized ==
    /\ pc = "iter"
    /\ \E q \in todo :
        /\ ~IsDir(fs, q)
        /\ ~SkipsAsHidden(q)
        /\ AlreadyOrganized(q)
        /\ todo' = todo \ { q }
        /\ p' = q
        /\ skippedOrganized' = skippedOrganized \cup { q }
    /\ UNCHANGED << params, dry_run, fs, pc, stack, sp, category, ext_folder,
                    want, dest, i, log, skippedHidden, clobbered, moved,
                    moveErrors, runs >>

\* lines 163-167: classify, build the destination, call move_file
VisitCandidate ==
    /\ pc = "iter"
    /\ \E q \in todo :
        /\ ~IsDir(fs, q)
        /\ ~SkipsAsHidden(q)
        /\ ~AlreadyOrganized(q)
        /\ todo' = todo \ { q }
        /\ p' = q
        /\ \E result \in { get_category(q) } :
              /\ category' = result[1]
              /\ ext_folder' = result[2]
              /\ want' = target \o << result[1], result[2], Name(q) >>
    /\ dest' = NoDir
    /\ i' = 1
    /\ pc' = "safe_destination"
    /\ UNCHANGED << params, dry_run, fs, stack, sp, log, history, runs >>

(***************************************************************************)
(* safe_destination, lines 96-112, one loop iteration per step.            *)
(***************************************************************************)
\* line 109: parent / f"{stem} ({i}){suffix}"
Candidate(d, k) ==
    Append(Parent(d),
           Stem(Name(d)) \o << " ", "(" >> \o IntToStr(k) \o << ")" >>
               \o Suffix(Name(d)))

\* line 101 without the existence test
ReturnsDesired_always(d) == TRUE

\* line 101: overwrite or not dest.exists()
ReturnsDesired(d) == overwrite \/ ~Exists(fs, d)

\* line 110 taking the first candidate whatever exists
CandidateFree_first(d, k) == TRUE

\* line 110: not candidate.exists()
CandidateFree(d, k) == ~Exists(fs, Candidate(d, k))

\* lines 101-102
SafeDestDesired ==
    /\ pc = "safe_destination"
    /\ ReturnsDesired(want)
    /\ dest' = want
    /\ pc' = "move_file"
    /\ UNCHANGED << params, dry_run, fs, iter, p, category, ext_folder, want,
                    i, log, history, runs >>

\* lines 108-111: the candidate for i does not exist
SafeDestFound ==
    /\ pc = "safe_destination"
    /\ ~ReturnsDesired(want)
    /\ CandidateFree(want, i)
    /\ dest' = Candidate(want, i)
    /\ pc' = "move_file"
    /\ UNCHANGED << params, dry_run, fs, iter, p, category, ext_folder, want,
                    i, log, history, runs >>

\* lines 108-112: the candidate for i exists
SafeDestNext ==
    /\ pc = "safe_destination"
    /\ ~ReturnsDesired(want)
    /\ ~CandidateFree(want, i)
    /\ i' = i + 1
    /\ UNCHANGED << params, dry_run, fs, pc, iter, p, category, ext_folder,
                    want, dest, log, history, runs >>

(***************************************************************************)
(* move_file, lines 114-124, after safe_destination has returned.  The     *)
(* parameter verbose only chooses what is printed; log keeps the decision  *)
(* line 117 prints.                                                        *)
(***************************************************************************)
\* lines 118-119 with the dry-run return dropped
DryRunReturns_never == FALSE

\* lines 118-119: if dry_run: return
DryRunReturns == dry_run

Decision == [ src |-> p, dest |-> dest ]

\* lines 116-119
MoveFileDry ==
    /\ pc = "move_file"
    /\ DryRunReturns
    /\ log' = Append(log, Decision)
    /\ pc' = "iter"
    /\ UNCHANGED << params, dry_run, fs, iter, locals, history, runs >>

\* line 120 raises: the exception leaves move_file and organize_directory
MoveFileMkdirRaises ==
    /\ pc = "move_file"
    /\ ~DryRunReturns
    /\ MkdirRaises(fs, Parent(dest))
    /\ log' = Append(log, Decision)
    /\ pc' = "crashed"
    /\ UNCHANGED << params, dry_run, fs, iter, locals, history, runs >>

\* lines 120-124: shutil.move raises, the handler reports it
MoveFileError ==
    /\ pc = "move_file"
    /\ ~DryRunReturns
    /\ ~MkdirRaises(fs, Parent(dest))
    /\ MoveRaises(Mkdir(fs, Parent(dest)), p, dest)
    /\ fs' = Mkdir(fs, Parent(dest))
    /\ log' = Append(log, Decision)
    /\ moveErrors' = moveErrors + 1
    /\ pc' = "iter"
    /\ UNCHANGED << params, dry_run, iter, locals, skippedHidden,
                    skippedOrganized, clobbered, moved, runs >>

\* lines 120-122: the file is moved
MoveFileMoved ==
    /\ pc = "move_file"
    /\ ~DryRunReturns
    /\ ~MkdirRaises(fs, Parent(dest))
    /\ ~MoveRaises(Mkdir(fs, Parent(dest)), p, dest)
    /\ LET f1 == Mkdir(fs, Parent(dest))
           rd == RealDst(f1, p, dest)
       IN  /\ fs' = Rename(f1, p, rd)
           /\ clobbered' = IF Exists(f1, rd) THEN clobbered \cup { rd }
                           ELSE clobbered
           /\ moved' = Append(moved, fs[p])
    /\ log' = Append(log, Decision)
    /\ pc' = "iter"
    /\ UNCHANGED << params, dry_run, iter, locals, skippedHidden,
                    skippedOrganized, moveErrors, runs >>

(***************************************************************************)
(* organize_directory is called again on the same target with the same     *)
(* parameters (dry_run apart).                                             *)
(***************************************************************************)
Rerun ==
    /\ pc = "done"
    /\ runNo < MaxRuns
    /\ runNo' = runNo + 1
    /\ prevLog' = log
    /\ prevDry' = dry_run
    /\ prevClean' = (moveErrors = 0)
    /\ dry_run' \in BOOLEAN
    /\ pc' = "start"
    /\ stack' = <<>>
    /\ sp' = NoDir
    /\ todo' = {}
    /\ p' = NoDir
    /\ category' = None
    /\ ext_folder' = None
    /\ want' = NoDir
    /\ dest' = NoDir
    /\ i' = 1
    /\ log' = <<>>
    /\ skippedHidden' = {}
    /\ skippedOrganized' = {}
    /\ clobbered' = {}
    /\ moved' = <<>>
    /\ moveErrors' = 0
    /\ startFs' = fs
    /\ UNCHANGED << params, fs >>

Next ==
    \/ OrganizeInvalidTarget
    \/ OrganizeStart
    \/ IterEnter
    \/ IterDescend
    \/ IterDone
    \/ VisitDir
    \/ VisitHidden
    \/ VisitOrganized
    \/ VisitCandidate
    \/ SafeDestDesired
    \/ SafeDestFound
    \/ SafeDestNext
    \/ MoveFileDry
    \/ MoveFileMkdirRaises
    \/ MoveFileError
    \/ MoveFileMoved
    \/ Rerun

Spec == Init /\ [][Next]_vars

(***************************************************************************)
(* The same program under fairness: the interpreter takes the run's steps  *)
(* one after the other until none is left.  Checked over chosen trees.     *)
(***************************************************************************)
PoolFile(x) == CHOOSE e \in Pool : e.id = x

LiveTrees ==
    { { PoolFile("f2"), PoolFile("f3"), PoolFile("f4") },
      { PoolFile("f1"), PoolFile("f2"), PoolFile("f5") },
      { PoolFile("f1"), PoolFile("f7") },
      { PoolFile("f1"), PoolFile("f8") },
      { PoolFile("f6"), PoolFile("f9") } }

LiveInit ==
    /\ Init
    /\ target = << Anchor, n_r >>
    /\ skip_hidden
    /\ \/ \E F \in LiveTrees : fs = TreeFs(target, F)
       \/ ~ValidTarget

FairSpec == LiveInit /\ [][Next]_vars /\ WF_vars(Next)

(***************************************************************************)
(* get_category on its own: one path, one guess of the oracle, one call.   *)
(***************************************************************************)
n_A_C == << "A", ".", "C" >>
n_a_JPG == << "a", ".", "J", "P", "G" >>
n_x_tar_gz == << "x", ".", "t", "a", "r", ".", "g", "z" >>
n_b_q == << "b", ".", "q" >>
n_h == << ".", "h" >>
n_a_dot == << "a", "." >>
n_a_Md == << "a", ".", "M", "d" >>
n_a_dot_dot_c == << "a", ".", ".", "c" >>
n_b_Q7 == << "b", ".", "Q", "7" >>

ClassifyNames ==
    { n_a_c, n_A_C, n_a_JPG, n_x_tar_gz, n_b_q, n_h, n_a_dot, n_a_Md,
      n_a_dot_dot_c, n_b_Q7, n_n, n_h_c, Code }

ClassifyInit ==
    /\ target = << Anchor, n_r >>
    /\ recursive = FALSE
    /\ dry_run = TRUE
    /\ overwrite = FALSE
    /\ skip_hidden = FALSE
    /\ \E nm \in ClassifyNames :
        /\ p = Append(target, nm)
        /\ mimeOf \in { [ x \in { nm } |-> m ] : m \in MimeTypes }
        /\ fs = TreeFs(target, { [ rel |-> << nm >>, id |-> "f1" ] })
    /\ pc = "classify"
    /\ stack = <<>>
    /\ sp = NoDir
    /\ todo = {}
    /\ category = None
    /\ ext_folder = None
    /\ want = NoDir
    /\ dest = NoDir
    /\ i = 1
    /\ log = <<>>
    /\ skippedHidden = {}
    /\ skippedOrganized = {}
    /\ clobbered = {}
    /\ moved = <<>>
    /\ moveErrors = 0
    /\ startFs = fs
    /\ runNo = 1
    /\ prevLog = <<>>
    /\ prevDry = FALSE
    /\ prevClean = FALSE

\* line 163: category, ext_folder = get_category(p)
GetCategory ==
    /\ pc = "classify"
    /\ \E result \in { get_category(p) } :
          /\ category' = result[1]
          /\ ext_folder' = result[2]
    /\ pc' = "classified"
    /\ UNCHANGED << params, dry_run, fs, iter, p, want, dest, i, log, history,
                    runs >>

ClassifyNext == GetCategory

SpecClassify == ClassifyInit /\ [][ClassifyNext]_vars

(***************************************************************************)
(* What the claims speak of, said without the program's helpers.           *)
(***************************************************************************)
\* the file name has an extension: a last dot that is neither its first nor
\* its last character
NameHasExtension(nm) ==
    \E k \in 2..(Len(nm) - 1) :
        nm[k] = "." /\ \A j \in (k + 1)..Len(nm) : nm[j] # "."

\* the lower-cased extension of a name that has one
LoweredExtension(nm) ==
    LET k == CHOOSE k \in 2..(Len(nm) - 1) :
                nm[k] = "." /\ \A j \in (k + 1)..Len(nm) : nm[j] # "."
    IN  [ j \in 1..(Len(nm) - k) |-> LowerChar(nm[k + j]) ]

\* the part of a path below the target
BelowTarget(path) == SubSeq(path, Len(target) + 1, Len(path))

\* some component of the path below the target begins with '.'
HiddenBelowTarget(path) ==
    \E k \in (Len(target) + 1)..Len(path) : path[k][1] = "."

\* the path lies in a category folder directly under the target
InCategoryFolder(path) ==
    /\ Len(BelowTarget(path)) >= 2
    /\ BelowTarget(path)[1] \in
         { Images, Videos, Audio, Documents, Archives, Code, Others }

Finished == pc \in { "done", "crashed", "invalid" }

Pairs(l) == { l[k] : k \in 1..Len(l) }

(***************************************************************************)
(* C1: in a live run with overwrite=false no file is destroyed: every file *)
(* present when the run started is still at its original path or at the    *)
(* destination it was moved to, no two decisions of the run share a        *)
(* destination, and no move landed on an occupied path.                    *)
(***************************************************************************)
C1_NoFileDestroyed ==
    (~dry_run /\ ~overwrite) =>
        /\ \A q \in FilePaths(startFs) :
              \/ Exists(fs, q) /\ fs[q] = startFs[q]
              \/ \E k \in 1..Len(log) :
                    /\ log[k].src = q
                    /\ Exists(fs, log[k].dest)
                    /\ fs[log[k].dest] = startFs[q]
        /\ \A j \in 1..Len(log), k \in 1..Len(log) :
              j # k => log[j].dest # log[k].dest
        /\ clobbered = {}

\* a live recursive run has moved two same-named files to different places
C1_Witness ==
    /\ ~dry_run /\ ~overwrite /\ pc = "done"
    /\ Len(moved) = 2
    /\ Len(log) = 2
    /\ Name(log[1].src) = Name(log[2].src)
    /\ Parent(log[1].src) # Parent(log[2].src)
    /\ Name(log[2].dest) = n_a1_c

(***************************************************************************)
(* C2: when safe_destination has returned, its result is the desired path  *)
(* if overwrite is set or nothing exists there; otherwise it is            *)
(* "stem (k)suffix" in the desired path's parent for the smallest k >= 1   *)
(* whose candidate does not exist; with overwrite=false the result never   *)
(* exists.                                                                 *)
(***************************************************************************)
C2_SafeDestination ==
    pc = "move_file" =>
        /\ (overwrite \/ want \notin DOMAIN fs) => dest = want
        /\ ~(overwrite \/ want \notin DOMAIN fs) =>
              \E k \in 1..(Cardinality(DOMAIN fs) + 1) :
                 /\ Parent(dest) = Parent(want)
                 /\ Name(dest) = Stem(Name(want)) \o << " ", "(" >>
                        \o IntToStr(k) \o << ")" >> \o Suffix(Name(want))
                 /\ dest \notin DOMAIN fs
                 /\ \A j \in 1..(k - 1) :
                       Append(Parent(want),
                              Stem(Name(want)) \o << " ", "(" >>
                                \o IntToStr(j) \o << ")" >>
                                \o Suffix(Name(want))) \in DOMAIN fs
        /\ ~overwrite => dest \notin DOMAIN fs

\* the desired path and "a (1).c" both exist: "a (2).c" is returned
C2_Witness ==
    /\ pc = "move_file"
    /\ ~overwrite
    /\ Name(want) = n_a_c
    /\ want \in DOMAIN fs
    /\ Name(dest) = << "a", " ", "(", "2", ")", ".", "c" >>

(***************************************************************************)
(* C3: a dry run mutates nothing: the filesystem stays what it was when    *)
(* the run started, whatever recursive, overwrite and skip_hidden are.     *)
(***************************************************************************)
C3_DryRunNoMutation == dry_run => fs = startFs

\* a recursive dry run has ended after reporting two would-be moves
C3_Witness ==
    /\ dry_run /\ recursive /\ pc = "done"
    /\ Len(log) >= 2
    /\ \E k \in 1..Len(log) : log[k].dest \notin DOMAIN fs

(***************************************************************************)
(* C4: a dry run followed by a live run over the same tree and parameters: *)
(* the (source, destination) pairs the completed live run acted on are the *)
(* pairs the dry run reported.  (Stated on the pairs regardless of their   *)
(* order, which the claimed equality of the sequences implies.)            *)
(***************************************************************************)
C4_DryEqualsLive ==
    (runNo = 2 /\ prevDry /\ ~dry_run /\ pc = "done") =>
        Pairs(log) = Pairs(prevLog)

(***************************************************************************)
(* C5: a file in a category folder under the target (two or more           *)
(* components below the target, the first a category label) is never       *)
(* handed to move_file, and a live run that follows a completed live run   *)
(* without move failures hands nothing to move_file.                       *)
(***************************************************************************)
C5_OrganizedNeverMoved ==
    /\ \A k \in 1..Len(log) : ~InCategoryFolder(log[k].src)
    /\ pc \in { "safe_destination", "move_file" } => ~InCategoryFolder(p)
    /\ (runNo >= 2 /\ ~prevDry /\ prevClean /\ ~dry_run) => log = <<>>

\* the second live run has ended after passing files the first one moved
C5_Witness ==
    /\ runNo = 2 /\ ~prevDry /\ prevClean /\ ~dry_run /\ pc = "done"
    /\ Len(prevLog) >= 2
    /\ recursive
    /\ \E q \in skippedOrganized : \E k \in 1..Len(prevLog) : prevLog[k].dest = q
    /\ \E q \in skippedOrganized : Len(BelowTarget(q)) = 2

(***************************************************************************)
(* C6: once the root check has passed, nothing aborts the run: a failure   *)
(* of one candidate, the creation of the destination's parent directories  *)
(* included, is caught and the remaining candidates are processed.         *)
(***************************************************************************)
C6_OnlyInvalidRootAborts == pc # "crashed"

(***************************************************************************)
(* C7: with skip_hidden=true no file with a component beginning with '.'   *)
(* below the target is classified or moved, and no file without such a     *)
(* component is skipped as hidden; with skip_hidden=false nothing is       *)
(* skipped as hidden.                                                      *)
(***************************************************************************)
C7_HiddenExactly ==
    /\ skip_hidden =>
          /\ \A k \in 1..Len(log) : ~HiddenBelowTarget(log[k].src)
          /\ \A q \in skippedHidden : HiddenBelowTarget(q)
    /\ ~skip_hidden => skippedHidden = {}

C10_Terminates ==
    /\ [](\A j \in 1..Len(moved), k \in 1..Len(moved) :
             j # k => moved[j] # moved[k])
    /\ (pc = "start") ~> Finished
    /\ (pc = "safe_destination") ~> (pc = "move_file")

\* a live recursive run has ended after walking past the files it moved
C10_Witness ==
    /\ pc = "done" /\ recursive /\ ~dry_run /\ ~overwrite
    /\ Len(moved) >= 2
    /\ \E k \in 1..Len(log) : Name(log[k].dest) = n_a1_c
    /\ \E q \in skippedOrganized : \E k \in 1..Len(log) : log[k].dest = q

====
